---- MODULE Spec2Model ----
(***************************************************************************)
(* Model of the gesture-controlled particle tree (accept-mas-tree).        *)
(*                                                                         *)
(*   - classifyGesture (src/handRecognition.ts) as a pure operator over    *)
(*     landmark coordinates on an integer grid;                            *)
(*   - the App component's state and handlers (src/App.tsx): startCamera,  *)
(*     stopCamera, predictWebcam, handleFileUpload;                        *)
(*   - the FloatingPhotos frame callback (src/unnamed/part_001): the grab  *)
(*     controller around activePhotoId;                                    *)
(*   - the MagicParticles generation effect and frame callback             *)
(*     (src/unnamed/part_001): target selection, swirl and smoothing.      *)
(*                                                                         *)
(* Numbers.  A landmark coordinate c on the grid stands for c / GridRes of *)
(* the normalized camera frame.  The code compares Euclidean distances     *)
(* (Math.sqrt of a sum of squares) with products of a distance and a       *)
(* decimal factor; both sides are non-negative, so the model compares the  *)
(* squares, in exact integer arithmetic:                                   *)
(*      d < s * (p / 100)   <=>   d^2 * 100^2 < s^2 * p^2.                 *)
(* A distance the code returns (pinchDistance) is carried as its square in *)
(* grid units: 0 is 0 and 1 is GridRes^2.  Floating-point rounding is not  *)
(* modelled.                                                               *)
(***************************************************************************)
EXTENDS Integers, Sequences, FiniteSets, TLC

VARIABLES
    \* ---- classifier harness: one input, classified once
    input,          \* the HandLandmarkerResult handed to classifyGesture
    factor,         \* the factor the input is scaled by for the second call
    cres,           \* classifyGesture(input), or Pending
    cresScaled,     \* classifyGesture(input scaled about the wrist), or Pending
    cresAgain,      \* classifyGesture(input), called once more afterwards
    variant,        \* the input with what classifyGesture does not read changed
    cresVariant,    \* classifyGesture(variant), or Pending
    \* ---- App (src/App.tsx)
    appState, gesture, handPos, isPinching, cameraActive, photos,
    detectorReady,  \* handService.handLandmarker !== null
    srcObject,      \* videoRef.current.srcObject: "null" or "stream"
    paused,         \* videoRef.current.paused
    requestRef,     \* requestRef.current: "null", "live" (the id of a pending
                    \* callback) or "stale" (an id that has run or was cancelled)
    rafPending,     \* number of pending requestAnimationFrame(predictWebcam)
    nGetUserMedia,  \* startCamera invocations suspended on getUserMedia
    nPlay,          \* startCamera invocations suspended on video.play()
    \* ---- FloatingPhotos (src/unnamed/part_001)
    mounted,        \* number of children of the photo group (rendered photos)
    worldPos,       \* world position of each child, as getWorldPosition sees it
    activePhotoId,  \* activePhotoId.current
    \* ---- MagicParticles (src/unnamed/part_001)
    particles,      \* the particles state: <<>>, or the generated batch (particle
                    \* i at index i + 1) with the fields no frame writes
    followed,       \* the particle whose positions the model follows, or Null
    initialPos,     \* its initialPos, the position every frame moves, or Null
    created,        \* the followed particle as the generation loop pushed it
    \* ---- history
    pinchHeld,      \* isPinching has been set ever since the last frame tick
    halted,         \* stopCamera has returned and startCamera was not invoked since
    lastEvent       \* the handler that ran last, with what it saw

classifyVars == <<input, factor, cres, cresScaled, cresAgain, variant, cresVariant>>
appVars == <<appState, gesture, handPos, isPinching, cameraActive, photos,
             detectorReady, srcObject, paused, requestRef, rafPending,
             nGetUserMedia, nPlay>>
photoVars == <<mounted, worldPos, activePhotoId>>
particleVars == <<particles, followed, initialPos, created>>
vars == <<classifyVars, appVars, photoVars, particleVars, pinchHeld, halted, lastEvent>>

Null == [null |-> TRUE]
Pending == [pending |-> TRUE]

(***************************************************************************)
(* Bounds of the model.                                                    *)
(***************************************************************************)
\* grid units per unit of the normalized camera frame
GridRes == 200
\* largest distance (in grid units) of a generated landmark from the wrist
MaxR == 3
\* largest integer factor a landmark set is scaled by
MaxScale == 2

(***************************************************************************)
(* Program constants of classifyGesture, in hundredths.                    *)
(***************************************************************************)
\* palmSize < 0.01 ? 0.01 : palmSize
MinScalePct == 1
\* pinchDist < safeScale * 0.65
PinchPct == 65
\* dist(tip, wrist) < safeScale * 1.35
CurlPct == 135

(***************************************************************************)
(* Landmarks.  A hand is a function from the joint index 0..20 to a point  *)
(* [x, y, z]; a detection result holds the sequence of detected hands, or  *)
(* no landmarks member at all.                                             *)
(***************************************************************************)
Joints == 0 .. 20
Pt(px, py) == [x |-> px, y |-> py, z |-> 0]

\* The seven joints classifyGesture reads positions of, and the hand made of
\* them; every other joint sits on the wrist.
MkHand(wrist, thumbTip, indexTip, middleMCP, middleTip, ringTip, pinkyTip) ==
    [j \in Joints |->
        CASE j = 0  -> wrist
          [] j = 4  -> thumbTip
          [] j = 8  -> indexTip
          [] j = 9  -> middleMCP
          [] j = 12 -> middleTip
          [] j = 16 -> ringTip
          [] j = 20 -> pinkyTip
          [] OTHER  -> wrist]

OneHand(h) == [hasLandmarks |-> TRUE, landmarks |-> <<h>>]
EmptyResult == [hasLandmarks |-> TRUE, landmarks |-> <<>>]
AbsentResult == [hasLandmarks |-> FALSE, landmarks |-> <<>>]

distSq_WithDepth(p1, p2) ==
    (p1.x - p2.x) * (p1.x - p2.x) + (p1.y - p2.y) * (p1.y - p2.y)
        + (p1.z - p2.z) * (p1.z - p2.z)

\* const dist = (p1, p2) => Math.sqrt((p1.x - p2.x)^2 + (p1.y - p2.y)^2), squared
distSq(p1, p2) ==
    (p1.x - p2.x) * (p1.x - p2.x) + (p1.y - p2.y) * (p1.y - p2.y)

safeScale_AlwaysClamped(palmSq) == [clamped |-> TRUE, sq |-> 0]

\* const safeScale = palmSize < 0.01 ? 0.01 : palmSize.  The clamp 0.01 is
\* MinScalePct * GridRes / 100 grid units, not a whole number of them in general,
\* so the value says which branch was taken: the clamp, or the palm size squared.
safeScale(palmSq) ==
    IF palmSq * 100 * 100 < MinScalePct * MinScalePct * GridRes * GridRes
    THEN [clamped |-> TRUE, sq |-> 0]
    ELSE [clamped |-> FALSE, sq |-> palmSq]

\* d < (safeScale * pct / 100) for a distance d given by its square dSq, exactly:
\* with a < b / c  <=>  a < (b + c - 1) \div c  for integers a, b and c > 0.
below(dSq, safe, pct) ==
    IF safe.clamped
    THEN dSq * 100 * 100 <
            (MinScalePct * MinScalePct * GridRes * GridRes * pct * pct + 9999) \div 10000
    ELSE dSq * 100 * 100 < safe.sq * pct * pct

\* const isPinchCandidate = pinchDist < (safeScale * 0.65)
isPinchCandidate(pinchSq, safe) == below(pinchSq, safe, PinchPct)

isCurled_WrongFactor(tip, wrist, safe) == below(distSq(tip, wrist), safe, PinchPct)

\* const isCurled = (tip) => dist(tip, wrist) < (safeScale * 1.35)
isCurled(tip, wrist, safe) == below(distSq(tip, wrist), safe, CurlPct)

\* [indexTip, middleTip, ringTip, pinkyTip].filter(tip => isCurled(tip)).length
curledCount(landmarks, safe) ==
    Cardinality({j \in {8, 12, 16, 20} : isCurled(landmarks[j], landmarks[0], safe)})

XY(p) == [x |-> p.x, y |-> p.y]

\* the value 1 of pinchDistance, as a squared distance in grid units
One == GridRes * GridRes

decide_PinchFirst(landmarks, count, pinch, pinchSq) ==
    IF pinch THEN
        [type |-> "PINCH", handCenter |-> XY(landmarks[8]), pinchDistance |-> pinchSq]
    ELSE IF count = 4 THEN
        [type |-> "CLOSED_FIST", handCenter |-> XY(landmarks[0]), pinchDistance |-> One]
    ELSE IF count <= 1 THEN
        [type |-> "OPEN_PALM", handCenter |-> XY(landmarks[9]), pinchDistance |-> One]
    ELSE
        [type |-> "NONE", handCenter |-> Null, pinchDistance |-> One]

\* DECISION LOGIC of classifyGesture: closed fist, then pinch, then open palm,
\* then the fallback
decide(landmarks, count, pinch, pinchSq) ==
    IF count = 4 THEN
        [type |-> "CLOSED_FIST", handCenter |-> XY(landmarks[0]), pinchDistance |-> One]
    ELSE IF pinch THEN
        [type |-> "PINCH", handCenter |-> XY(landmarks[8]), pinchDistance |-> pinchSq]
    ELSE IF count <= 1 THEN
        [type |-> "OPEN_PALM", handCenter |-> XY(landmarks[9]), pinchDistance |-> One]
    ELSE
        [type |-> "NONE", handCenter |-> Null, pinchDistance |-> One]

classifyGesture_Remembers(result) ==
    IF cres # Pending /\ cres.type = "PINCH" THEN
        [cres EXCEPT !.pinchDistance = 0]
    ELSE IF ~result.hasLandmarks \/ Len(result.landmarks) = 0 THEN
        [type |-> "NONE", handCenter |-> Null, pinchDistance |-> 0]
    ELSE
        LET landmarks == result.landmarks[1]
            safe == safeScale(distSq(landmarks[0], landmarks[9]))
            pinchSq == distSq(landmarks[4], landmarks[8])
        IN  decide(landmarks, curledCount(landmarks, safe),
                   isPinchCandidate(pinchSq, safe), pinchSq)

\* HandRecognitionService.classifyGesture
classifyGesture(result) ==
    IF ~result.hasLandmarks \/ Len(result.landmarks) = 0 THEN
        [type |-> "NONE", handCenter |-> Null, pinchDistance |-> 0]
    ELSE
        LET landmarks == result.landmarks[1]
            safe == safeScale(distSq(landmarks[0], landmarks[9]))
            pinchSq == distSq(landmarks[4], landmarks[8])
        IN  decide(landmarks, curledCount(landmarks, safe),
                   isPinchCandidate(pinchSq, safe), pinchSq)

(***************************************************************************)
(* The inputs of the classifier harness: hands whose joints lie on the two *)
(* grid rays leaving the wrist, up to MaxR grid units away, and the two    *)
(* results without a hand.                                                 *)
(***************************************************************************)
Wrists == {Pt(0, 0), Pt(2, 1)}
XRay(w) == {Pt(w.x + r, w.y) : r \in 0 .. MaxR}
YRay(w) == {Pt(w.x, w.y + r) : r \in 0 .. MaxR}

\* every coordinate of a hand scaled about its wrist by the factor k
ScaleHand(h, k) ==
    [j \in Joints |->
        [x |-> h[0].x + k * (h[j].x - h[0].x),
         y |-> h[0].y + k * (h[j].y - h[0].y),
         z |-> h[0].z + k * (h[j].z - h[0].z)]]

ScaleResult(result, k) ==
    [result EXCEPT !.landmarks = [i \in 1 .. Len(result.landmarks) |->
                                    ScaleHand(result.landmarks[i], k)]]

(***************************************************************************)
(* App (src/App.tsx).  handPos is the THREE.Vector3 of predictWebcam, in   *)
(* units of 1 / (2 * GridRes) of a world unit, so that                     *)
(*     x3d = (0.5 - handCenter.x) * 10,  y3d = (0.5 - handCenter.y) * 8    *)
(* are whole numbers.                                                      *)
(***************************************************************************)
\* largest number of photos an execution uploads
MaxPhotos == 2
\* largest number of pending predictWebcam animation-frame callbacks
MaxPending == 2
\* largest number of startCamera invocations suspended at one time
MaxInFlight == 2

\* new THREE.Vector3((0.5 - handCenter.x) * 10, (0.5 - handCenter.y) * 8, 0)
toHandPos(handCenter) ==
    [x |-> (GridRes - 2 * handCenter.x) * 10,
     y |-> (GridRes - 2 * handCenter.y) * 8,
     z |-> 0]

\* Hands the detector reports to the App, with a palm of 20 grid units (0.1 of
\* the frame): an open palm, a fist, a pinch (index and thumb tips together, the
\* other fingers extended) and a relaxed hand with two fingers curled.
OpenPalmHand(wx, wy) ==
    MkHand(Pt(wx, wy), Pt(wx - 30, wy - 20), Pt(wx - 10, wy - 40), Pt(wx, wy - 20),
           Pt(wx, wy - 42), Pt(wx + 8, wy - 38), Pt(wx + 16, wy - 34))
FistHand(wx, wy) ==
    MkHand(Pt(wx, wy), Pt(wx - 6, wy - 14), Pt(wx - 5, wy - 15), Pt(wx, wy - 20),
           Pt(wx, wy - 16), Pt(wx + 4, wy - 15), Pt(wx + 8, wy - 13))
PinchHand(wx, wy) ==
    MkHand(Pt(wx, wy), Pt(wx - 12, wy - 28), Pt(wx - 10, wy - 30), Pt(wx, wy - 20),
           Pt(wx, wy - 42), Pt(wx + 8, wy - 38), Pt(wx + 16, wy - 34))
RelaxedHand(wx, wy) ==
    MkHand(Pt(wx, wy), Pt(wx - 30, wy - 20), Pt(wx - 10, wy - 40), Pt(wx, wy - 20),
           Pt(wx, wy - 42), Pt(wx + 4, wy - 15), Pt(wx + 8, wy - 13))

\* what handLandmarker.detectForVideo may return: no hand, or one of the hands
\* above; the pinch at two places of the frame, 4 world units apart, and the
\* open palm with its anchor at the first of them
DetectionResults ==
    {EmptyResult, OneHand(OpenPalmHand(60, 120)), OneHand(FistHand(100, 100)),
     OneHand(RelaxedHand(100, 120)), OneHand(PinchHand(70, 130)),
     OneHand(PinchHand(150, 130))}

(***************************************************************************)
(* FloatingPhotos.  A child's world position is its local position (moved  *)
(* by lerp every frame) under the rotation of the enclosing RotatingScene  *)
(* (advanced by the frame's delta); the model lets it be any point of      *)
(* WorldPts in every frame, except that the grabbed child gets no farther  *)
(* from the point it is drawn to.  A photo is modelled by its id.          *)
(***************************************************************************)
\* if (dist < 1.5 && ...), in tenths
GrabTenths == 15

WorldPts ==
    {[x |-> 4 * GridRes, y |-> 0, z |-> GridRes \div 2],
     [x |-> 4 * GridRes, y |-> 0, z |-> 2 * GridRes],
     [x |-> 0 - 4 * GridRes, y |-> 0, z |-> GridRes]}

\* handPosition.distanceTo(tempVec), squared
distanceToSq(a, b) ==
    (a.x - b.x) * (a.x - b.x) + (a.y - b.y) * (a.y - b.y) + (a.z - b.z) * (a.z - b.z)

\* dist < 1.5
withinGrab(dSq) ==
    dSq < ((GrabTenths * 2 * GridRes) \div 10) * ((GrabTenths * 2 * GridRes) \div 10)

\* The forEach over groupRef.current.children of the frame callback: closestDist
\* and closestId after the children 1 .. n (inf: closestDist is still Infinity).
RECURSIVE closestAfter(_, _, _, _)
closestAfter(n, hand, pos, ps) ==
    IF n = 0 THEN [inf |-> TRUE, dist |-> 0, id |-> Null]
    ELSE LET before == closestAfter(n - 1, hand, pos, ps)
             d == distanceToSq(hand, pos[n])
         IN  IF n > Len(ps) THEN before
             ELSE IF withinGrab(d) /\ (before.inf \/ d < before.dist)
                  THEN [inf |-> FALSE, dist |-> d, id |-> ps[n].id]
                  ELSE before

closestId_NoPinchCheck(hand, pinching, state, pos, ps) ==
    IF hand # Null /\ state = "SCATTER"
    THEN closestAfter(Len(pos), hand, pos, ps).id
    ELSE Null

\* closestId of the frame callback, after its "Interaction logic" block
closestId(hand, pinching, state, pos, ps) ==
    IF hand # Null /\ pinching /\ state = "SCATTER"
    THEN closestAfter(Len(pos), hand, pos, ps).id
    ELSE Null

nextActive_AlwaysClear(closest, pinching, active) ==
    IF closest # Null THEN closest ELSE Null

\* if (closestId) activePhotoId.current = closestId;
\* else if (!isPinching) activePhotoId.current = null;
nextActive(closest, pinching, active) ==
    IF closest # Null THEN closest
    ELSE IF ~pinching THEN Null
    ELSE active

\* targetPos of the grabbed child: the hand, moved 0.5 in front of it
grabTarget(hand) == [hand EXCEPT !.z = @ + GridRes]

\* where child.position.lerp(targetPos, 0.1) may leave child i: a grabbed child
\* under a hand nears its target; any other child follows the rotating scene
movedTo(i, active, hand, pos, ps) ==
    IF i <= Len(ps) /\ ps[i].id = active /\ hand # Null
    THEN {q \in WorldPts : distanceToSq(grabTarget(hand), q)
                                <= distanceToSq(grabTarget(hand), pos[i])}
    ELSE WorldPts

uuidv4_Repeats(ps) == [uuid |-> 1]

\* uuidv4(): an id no photo has yet (photos are only ever appended)
uuidv4(ps) == [uuid |-> Len(ps) + 1]

\* newPhotos of handleFileUpload for a selection with n image files
RECURSIVE newPhotos(_, _)
newPhotos(ps, n) ==
    IF n = 0 THEN <<>>
    ELSE LET rest == newPhotos(ps, n - 1)
         IN  Append(rest, [id |-> uuidv4(ps \o rest)])

(***************************************************************************)
(* Initial state: the classifier harness idle, the App as constructed.     *)
(***************************************************************************)
AppInit ==
    /\ appState = "TREE"
    /\ gesture = "NONE"
    /\ photos = <<>>
    /\ handPos = Null
    /\ isPinching = FALSE
    /\ cameraActive = FALSE
    /\ detectorReady = FALSE
    /\ srcObject = "null"
    /\ paused = TRUE
    /\ requestRef = "null"
    /\ rafPending = 0
    /\ nGetUserMedia = 0
    /\ nPlay = 0
    /\ mounted = 0
    /\ worldPos = <<>>
    /\ activePhotoId = Null
    /\ particles = <<>>
    /\ followed = Null
    /\ initialPos = Null
    /\ created = Null
    /\ pinchHeld = FALSE
    /\ halted = FALSE
    /\ lastEvent = [op |-> "init"]

HarnessIdle ==
    /\ input = EmptyResult
    /\ factor = 1
    /\ cres = Pending
    /\ cresScaled = Pending
    /\ cresAgain = Pending
    /\ variant = Pending
    /\ cresVariant = Pending

Init == AppInit /\ HarnessIdle

(***************************************************************************)
(* Handlers of App.                                                        *)
(***************************************************************************)
Ev(name) == [op |-> name]

\* handService.initialize() resolves: initVision sets loading to false
InitVision ==
    /\ ~detectorReady
    /\ detectorReady' = TRUE
    /\ lastEvent' = Ev("initVision")
    /\ UNCHANGED <<classifyVars, particleVars, photoVars, pinchHeld, halted, appState, gesture, handPos,
                   isPinching, cameraActive, photos, srcObject, paused, requestRef,
                   rafPending, nGetUserMedia, nPlay>>

\* startCamera up to its first await: getUserMedia is requested
startCamera ==
    /\ nGetUserMedia' = nGetUserMedia + 1
    /\ halted' = FALSE
    /\ lastEvent' = Ev("startCamera")
    /\ UNCHANGED <<classifyVars, particleVars, photoVars, pinchHeld, appState, gesture, handPos,
                   isPinching, cameraActive, photos, detectorReady, srcObject,
                   paused, requestRef, rafPending, nPlay>>

stopCamera_KeepsHand ==
    /\ srcObject' = "null"
    /\ paused' = (srcObject # "null" \/ paused)
    /\ cameraActive' = FALSE
    /\ gesture' = "NONE"
    /\ rafPending' = IF requestRef = "live" THEN rafPending - 1 ELSE rafPending
    /\ requestRef' = "null"
    /\ pinchHeld' = (pinchHeld /\ isPinching)
    /\ halted' = TRUE
    /\ lastEvent' = [op |-> "stopCamera", prevGesture |-> gesture]
    /\ UNCHANGED <<classifyVars, particleVars, photoVars, appState, handPos, isPinching, photos,
                   detectorReady, nGetUserMedia, nPlay>>

\* stopCamera: the tracks are stopped and srcObject cleared (which pauses the
\* element), cameraActive, gesture and handPos are reset, and the animation
\* frame requestRef names is cancelled
stopCamera ==
    /\ srcObject' = "null"
    /\ paused' = (srcObject # "null" \/ paused)
    /\ cameraActive' = FALSE
    /\ gesture' = "NONE"
    /\ handPos' = Null
    /\ rafPending' = IF requestRef = "live" THEN rafPending - 1 ELSE rafPending
    /\ requestRef' = "null"
    /\ pinchHeld' = (pinchHeld /\ isPinching)
    /\ halted' = TRUE
    /\ lastEvent' = [op |-> "stopCamera", prevGesture |-> gesture]
    /\ UNCHANGED <<classifyVars, particleVars, photoVars, appState, isPinching, photos,
                   detectorReady, nGetUserMedia, nPlay>>

\* const toggleGestures = () => cameraActive ? stopCamera() : startCamera()
toggleGestures ==
    \/ cameraActive /\ stopCamera
    \/ ~cameraActive /\ startCamera

\* the "Enable Gestures" button, rendered while !cameraActive && !loading
EnableGestures ==
    /\ ~cameraActive
    /\ detectorReady
    /\ startCamera

\* startCamera invocations suspended on an await
InFlight == nGetUserMedia + nPlay

\* what one run of predictWebcam past its guard may get from handService.detect:
\* nothing (readyState is not 4, or the detector is not initialized), or a result
NoResult == [noResult |-> TRUE]
TickInputs == {NoResult} \cup (IF detectorReady THEN DetectionResults ELSE {})

Saw(r) ==
    IF r = NoResult THEN "noResult"
    ELSE IF Len(r.landmarks) = 0 THEN "noHand" ELSE "hand"

applyResult_PinchScatters(r) ==
    LET c == classifyGesture(r)
    IN  /\ gesture' = c.type
        /\ handPos' = IF c.handCenter # Null THEN toHandPos(c.handCenter) ELSE Null
        /\ isPinching' = (c.type = "PINCH")
        /\ appState' = IF c.type \in {"OPEN_PALM", "PINCH"} THEN "SCATTER"
                       ELSE IF c.type = "CLOSED_FIST" THEN "TREE"
                       ELSE appState

applyResult_KeepsHand(r) ==
    LET c == classifyGesture(r)
    IN  /\ gesture' = c.type
        /\ handPos' = IF c.handCenter # Null THEN toHandPos(c.handCenter) ELSE handPos
        /\ isPinching' = (c.type = "PINCH")
        /\ appState' = IF c.type = "OPEN_PALM" THEN "SCATTER"
                       ELSE IF c.type = "CLOSED_FIST" THEN "TREE"
                       ELSE appState

applyResult_PinchViewsPhoto(r) ==
    LET c == classifyGesture(r)
    IN  /\ gesture' = c.type
        /\ handPos' = IF c.handCenter # Null THEN toHandPos(c.handCenter) ELSE Null
        /\ isPinching' = (c.type = "PINCH")
        /\ appState' = IF c.type = "OPEN_PALM" THEN "SCATTER"
                       ELSE IF c.type = "CLOSED_FIST" THEN "TREE"
                       ELSE IF c.type = "PINCH" THEN "PHOTO_VIEW"
                       ELSE appState

\* the body of if (result) { ... } in predictWebcam
applyResult(r) ==
    LET c == classifyGesture(r)
    IN  /\ gesture' = c.type
        /\ handPos' = IF c.handCenter # Null THEN toHandPos(c.handCenter) ELSE Null
        /\ isPinching' = (c.type = "PINCH")
        /\ appState' = IF c.type = "OPEN_PALM" THEN "SCATTER"
                       ELSE IF c.type = "CLOSED_FIST" THEN "TREE"
                       ELSE appState

\* predictWebcam, run as: "call" (called by startCamera), "ref" (the pending
\* animation-frame callback requestRef names) or "other" (a pending callback
\* requestRef does not name)
predictWebcam(ran) ==
    IF srcObject = "null" \/ paused THEN
        \* if camera was stopped, exit loop
        /\ requestRef' = IF ran = "ref" THEN "stale" ELSE requestRef
        /\ rafPending' = IF ran = "call" THEN rafPending ELSE rafPending - 1
        /\ pinchHeld' = pinchHeld
        /\ halted' = halted
        /\ lastEvent' = [op |-> "predictWebcam", saw |-> "exit",
                         prevAppState |-> appState]
        /\ UNCHANGED <<gesture, handPos, isPinching, appState>>
    ELSE
        /\ \E r \in TickInputs :
            /\ IF r = NoResult
               THEN UNCHANGED <<gesture, handPos, isPinching, appState>>
               ELSE applyResult(r)
            /\ lastEvent' = [op |-> "predictWebcam", saw |-> Saw(r),
                             prevAppState |-> appState]
        /\ pinchHeld' = (pinchHeld /\ isPinching')
        /\ halted' = halted
        \* requestRef.current = requestAnimationFrame(predictWebcam)
        /\ requestRef' = "live"
        /\ rafPending' = IF ran = "call" THEN rafPending + 1 ELSE rafPending

\* a pending requestAnimationFrame(predictWebcam) callback runs
AnimationFrame ==
    /\ rafPending > 0
    /\ \E ran \in {"ref", "other"} :
        /\ ran = "ref" => requestRef = "live"
        /\ ran = "other" => rafPending > (IF requestRef = "live" THEN 1 ELSE 0)
        /\ predictWebcam(ran)
    /\ UNCHANGED <<classifyVars, particleVars, photoVars, cameraActive, photos, detectorReady,
                   srcObject, paused, nGetUserMedia, nPlay>>

\* startCamera resumes with the stream: srcObject is set and play() is called
GetUserMediaResolves ==
    /\ nGetUserMedia > 0
    /\ nGetUserMedia' = nGetUserMedia - 1
    /\ srcObject' = "stream"
    /\ paused' = FALSE
    /\ nPlay' = nPlay + 1
    /\ lastEvent' = Ev("getUserMediaResolved")
    /\ UNCHANGED <<classifyVars, particleVars, photoVars, pinchHeld, halted, appState, gesture, handPos,
                   isPinching, cameraActive, photos, detectorReady, requestRef,
                   rafPending>>

\* getUserMedia rejects: the catch block reports it
GetUserMediaRejects ==
    /\ nGetUserMedia > 0
    /\ nGetUserMedia' = nGetUserMedia - 1
    /\ lastEvent' = Ev("startCameraFailed")
    /\ UNCHANGED <<classifyVars, particleVars, photoVars, pinchHeld, halted, appState, gesture, handPos,
                   isPinching, cameraActive, photos, detectorReady, srcObject,
                   paused, requestRef, rafPending, nPlay>>

\* startCamera resumes after play(): predictWebcam(); setCameraActive(true)
PlayResolves ==
    /\ nPlay > 0
    /\ srcObject = "stream" /\ ~paused
    /\ rafPending < MaxPending
    /\ nPlay' = nPlay - 1
    /\ predictWebcam("call")
    /\ cameraActive' = TRUE
    /\ UNCHANGED <<classifyVars, particleVars, photoVars, photos, detectorReady, srcObject,
                   paused, nGetUserMedia>>

\* play() rejects (the load was aborted): the catch block reports it
PlayRejects ==
    /\ nPlay > 0
    /\ nPlay' = nPlay - 1
    /\ lastEvent' = Ev("startCameraFailed")
    /\ UNCHANGED <<classifyVars, particleVars, photoVars, pinchHeld, halted, appState, gesture, handPos,
                   isPinching, cameraActive, photos, detectorReady, srcObject,
                   paused, requestRef, rafPending, nGetUserMedia>>

\* handleFileUpload for a selection with nImages image files, and other files or
\* not
handleFileUpload ==
    \E nImages \in 0 .. (MaxPhotos - Len(photos)), others \in BOOLEAN :
        /\ nImages > 0 \/ others
        /\ photos' = photos \o newPhotos(photos, nImages)
        /\ appState' = "SCATTER"
        /\ lastEvent' = Ev("handleFileUpload")
        /\ UNCHANGED <<classifyVars, particleVars, photoVars, pinchHeld, halted, gesture, handPos,
                       isPinching, cameraActive, detectorReady, srcObject, paused,
                       requestRef, rafPending, nGetUserMedia, nPlay>>

(***************************************************************************)
(* FloatingPhotos.                                                         *)
(***************************************************************************)
\* the textures of the uploaded photos have loaded: the Suspense boundary
\* commits and every photo has its child in the group
MountPhotos ==
    /\ mounted < Len(photos)
    /\ mounted' = Len(photos)
    /\ \E more \in [1 .. (Len(photos) - mounted) -> WorldPts] :
        worldPos' = worldPos \o more
    /\ lastEvent' = Ev("mountPhotos")
    /\ UNCHANGED <<classifyVars, particleVars, appVars, activePhotoId, pinchHeld, halted>>

\* the useFrame callback of FloatingPhotos: the grab target is chosen, then the
\* animation loop moves every child
FloatingPhotosFrame ==
    LET closest == closestId(handPos, isPinching, appState, worldPos, photos)
    IN  /\ activePhotoId' = nextActive(closest, isPinching, activePhotoId)
        /\ worldPos' \in [1 .. mounted -> WorldPts]
        /\ \A i \in 1 .. mounted :
              worldPos'[i] \in movedTo(i, activePhotoId', handPos, worldPos, photos)
        /\ pinchHeld' = isPinching
        /\ lastEvent' = [op |-> "frame", prevActive |-> activePhotoId,
                         held |-> pinchHeld, closest |-> closest]
        /\ UNCHANGED <<classifyVars, particleVars, appVars, mounted, halted>>

\* The user's clicks.  In Spec a click that starts the camera comes only while
\* no earlier startCamera is suspended: the handlers of the photos and of the
\* gestures see the same sequences of detections and stops either way.
ClickEnableGestures == InFlight = 0 /\ EnableGestures
ClickToggleGestures == (cameraActive \/ InFlight = 0) /\ toggleGestures

Next ==
    \/ InitVision
    \/ ClickEnableGestures
    \/ ClickToggleGestures
    \/ GetUserMediaResolves
    \/ GetUserMediaRejects
    \/ PlayResolves
    \/ PlayRejects
    \/ AnimationFrame
    \/ handleFileUpload
    \/ MountPhotos
    \/ FloatingPhotosFrame

Spec == Init /\ [][Next]_vars

(***************************************************************************)
(* The camera alone, with clicks at any time: up to MaxInFlight            *)
(* startCamera invocations are suspended at once, each on getUserMedia or  *)
(* on play().                                                              *)
(***************************************************************************)
ClickEnableGesturesAnyTime == InFlight < MaxInFlight /\ EnableGestures
ClickToggleGesturesAnyTime ==
    (cameraActive \/ InFlight < MaxInFlight) /\ toggleGestures

NextCamera ==
    \/ InitVision
    \/ ClickEnableGesturesAnyTime
    \/ ClickToggleGesturesAnyTime
    \/ GetUserMediaResolves
    \/ GetUserMediaRejects
    \/ PlayResolves
    \/ PlayRejects
    \/ AnimationFrame

SpecCamera == Init /\ [][NextCamera]_vars

(***************************************************************************)
(* MagicParticles (src/unnamed/part_001): the generation effect and the    *)
(* frame callback.  The props appState and handPosition are the App's      *)
(* appState and handPos.                                                   *)
(*                                                                         *)
(* Numbers.  A particle coordinate c stands for c / Unit of a world unit.  *)
(* lerp(target, 0.08) moves a coordinate by 8 / 100 of its offset from the *)
(* target; the points the generation draws are multiples of half a world   *)
(* unit, and a frame is followed as long as the move is a whole number of  *)
(* grid steps (OnGrid), so that every position of the model is the exact   *)
(* value of the code's formula.  Angles are whole numbers of quarter       *)
(* turns: the clock of a frame is sampled at the times where the angle the *)
(* frame computes (time * -0.5 for the ribbon flow, time + p.id for the    *)
(* swirl) is one.  Distances are compared by their squares.                *)
(*                                                                         *)
(* The particles state holds the whole batch with the fields that decide   *)
(* which branch a frame takes (id, isRibbon, isTrunk, and whether ribbonPos *)
(* is defined).  The frame callback handles each particle by itself and    *)
(* reads no other particle, so the positions are followed for one particle *)
(* of the batch, drawn at generation among FollowedIds.  The sway and the  *)
(* scale of a frame go to the render matrix only and are not modelled.     *)
(***************************************************************************)
\* const COUNT = 6000
COUNT == 6000
\* const RIBBON_COUNT = 800
RIBBON_COUNT == 800
\* const turns = 5 (ribbon flow)
turns == 5
\* (1 - normH) * 4.2, in tenths
SpiralTenths == 42
\* p.initialPos.lerp(target, 0.08), in hundredths
BlendPct == 8
\* if (dist < 4)
SwirlReach == 4

Unit == 2 * 25 * 25
\* the point (hx / 2, hy / 2, hz / 2) of the world
Halves(hx, hy, hz) ==
    [x |-> hx * (Unit \div 2), y |-> hy * (Unit \div 2), z |-> hz * (Unit \div 2)]

\* Math.cos and Math.sin of q quarter turns
cosQ(q) == CASE q % 4 = 0 -> 1 [] q % 4 = 2 -> 0 - 1 [] OTHER -> 0
sinQ(q) == CASE q % 4 = 1 -> 1 [] q % 4 = 3 -> 0 - 1 [] OTHER -> 0

\* const isRibbon = i < RIBBON_COUNT
isRibbonAt(i) == i < RIBBON_COUNT

isTrunkAt_Lowest(i) == i * 10 < COUNT
\* const isTrunk = !isRibbon && i > COUNT - (COUNT * 0.1)
isTrunkAt(i) == ~isRibbonAt(i) /\ i * 10 > COUNT * 10 - COUNT

\* The spiral of the ribbon at height h, turned back by offsetQ quarter turns:
\*   normH = (h + 5) / 10, spiralRadius = (1 - normH) * 4.2,
\*   angle = normH * Math.PI * 2 * turns + angleOffset,
\*   (spiralRadius * cos(angle), h, spiralRadius * sin(angle))
spiral(h, offsetQ) ==
    LET spiralRadius == ((5 * Unit - h) * SpiralTenths) \div 100
        angle == ((h + 5 * Unit) * 4 * turns) \div (10 * Unit) + 4 - offsetQ
    IN  [x |-> spiralRadius * cosQ(angle), y |-> h, z |-> spiralRadius * sinQ(angle)]

\* const h = (i / RIBBON_COUNT) * 10 - 5; ribbonPos.set(...)
ribbonPosAt(i) == spiral((i * 10 * Unit) \div RIBBON_COUNT - 5 * Unit, 0)

storedRibbonPos_Always(isRibbon, ribbonPos) == ribbonPos
\* ribbonPos: isRibbon ? ribbonPos : undefined
storedRibbonPos(isRibbon, ribbonPos) == IF isRibbon THEN ribbonPos ELSE Null

\* What Math.random() gives the followed particle: a scatter point of the cube
\* of side 15, a point of the cone, a point of the trunk column, a point of the
\* heart curve (t = pi / 2).
ScatterPts == {Halves(0 - 4, 0, 0), Halves(0 - 3, 0 - 3, 0 - 2)}
ConePts == {Halves(0 - 6, 0 - 10, 0)}
TrunkPts == {Halves(0, 0 - 6, 0)}
HeartPts == {Halves(8, 4, 1)}

\* new THREE.Color(hex), at pct hundredths of its brightness
Color(hex) == [hex |-> hex, pct |-> 100]
ribbonColor == Color("#F8F8FF")
trunkColor == Color("#4A3728")
mixedPalette ==
    <<Color("#D87093"), Color("#FF69B4"), Color("#FFB6C1"), Color("#FFFFFF"),
      Color("#FFD700"), Color("#FF1493")>>

\* Color Assignment; Math.random() picks the gold of the palette
colorAt(i) ==
    IF isRibbonAt(i) THEN ribbonColor
    ELSE IF isTrunkAt(i) THEN trunkColor
    ELSE mixedPalette[5]

\* One pass of the generation loop: the ParticleData pushed for index i, with
\* size 0.1 and phase 0 for Math.random().
newParticle(i, scatterPos, conePos, trunkPos, heartPos) ==
    [id |-> i,
     treePos |-> IF isRibbonAt(i) THEN ribbonPosAt(i)
                 ELSE IF isTrunkAt(i) THEN trunkPos ELSE conePos,
     heartPos |-> heartPos,
     scatterPos |-> scatterPos,
     ribbonPos |-> storedRibbonPos(isRibbonAt(i), ribbonPosAt(i)),
     isRibbon |-> isRibbonAt(i),
     isTrunk |-> isTrunkAt(i),
     color |-> colorAt(i),
     \* in hundredths
     size |-> 10,
     \* in quarter turns
     phase |-> 0]

\* what the particles state keeps of a particle
Defined == [vector |-> TRUE]
kept(p) ==
    [id |-> p.id, isRibbon |-> p.isRibbon, isTrunk |-> p.isTrunk,
     ribbonPos |-> IF p.ribbonPos = Null THEN Null ELSE Defined]

tempParticles_OneShort ==
    [k \in 1 .. COUNT - 1 |->
        kept(newParticle(k - 1, Halves(0, 0, 0), Halves(0, 0, 0), Halves(0, 0, 0),
                         Halves(0, 0, 0)))]
\* for (let i = 0; i < COUNT; i++) { ... tempParticles.push({ id: i, ... }) }
tempParticles ==
    [k \in 1 .. COUNT |->
        kept(newParticle(k - 1, Halves(0, 0, 0), Halves(0, 0, 0), Halves(0, 0, 0),
                         Halves(0, 0, 0)))]

\* The particles followed: the first ribbon particle and the middle one, the
\* first particle after the ribbon, the last before the trunk, the first
\* particle of the trunk, the first of the trunk at a multiple of 15 and the
\* last.
FollowedIds ==
    {0, RIBBON_COUNT \div 2, RIBBON_COUNT, COUNT - COUNT \div 10,
     COUNT - COUNT \div 10 + 1, COUNT - COUNT \div 10 + 15, COUNT - 1}

\* useEffect(() => { ... setParticles(tempParticles) }, []): runs once
GenerateParticles ==
    /\ particles = <<>>
    /\ particles' = tempParticles
    /\ \E k \in 1 .. Len(particles') : \E scatterPos \in ScatterPts :
       \E conePos \in ConePts : \E trunkPos \in TrunkPts : \E heartPos \in HeartPts :
        /\ k - 1 \in FollowedIds
        /\ followed' = [i |-> k - 1,
                        p |-> newParticle(k - 1, scatterPos, conePos, trunkPos, heartPos)]
        /\ created' = followed'.p
        \* initialPos: scatterPos.clone()
        /\ initialPos' = scatterPos
    /\ lastEvent' = Ev("generateParticles")
    /\ UNCHANGED <<classifyVars, appVars, photoVars, pinchHeld, halted>>

AppStates == {"TREE", "SCATTER", "HEART", "PHOTO_VIEW"}
\* the hand positions handed down: no hand, and the anchor of the open palm,
\* 2 world units to the right of the centre
HandPositions == {Null, toHandPos(classifyGesture(OneHand(OpenPalmHand(60, 120))).handCenter)}

\* The parent renders MagicParticles with a new appState or a new handPosition.
RenderProps ==
    /\ \E state \in AppStates : \E hand \in HandPositions :
        /\ (state = appState) # (hand = handPos)
        /\ appState' = state
        /\ handPos' = hand
    /\ lastEvent' = Ev("render")
    /\ UNCHANGED <<classifyVars, photoVars, particleVars, pinchHeld, halted, gesture,
                   isPinching, cameraActive, photos, detectorReady, srcObject, paused,
                   requestRef, rafPending, nGetUserMedia, nPlay>>

\* handPosition, a vector of world units, on the particle grid
onParticleGrid(hand) ==
    [x |-> (hand.x * Unit) \div (2 * GridRes), y |-> (hand.y * Unit) \div (2 * GridRes),
     z |-> (hand.z * Unit) \div (2 * GridRes)]

baseTarget_TreeOnly(p, state, offsetQ) ==
    [pos |-> p.treePos, flow |-> FALSE, field |-> "treePos"]
\* let target = p.treePos; if (SCATTER) ... else if (HEART) ... else if (TREE &&
\* p.isRibbon && p.ribbonPos) ...: the target, whether it is the ribbon flow,
\* and the field of p whose vector the variable target refers to ("new" for
\* the vector the ribbon flow constructs)
baseTarget(p, state, offsetQ) ==
    IF state = "SCATTER" THEN [pos |-> p.scatterPos, flow |-> FALSE, field |-> "scatterPos"]
    ELSE IF state = "HEART" THEN [pos |-> p.heartPos, flow |-> FALSE, field |-> "heartPos"]
    ELSE IF state = "TREE" /\ p.isRibbon /\ p.ribbonPos # Null
         THEN [pos |-> spiral(p.ribbonPos.y, offsetQ), flow |-> TRUE, field |-> "new"]
    ELSE [pos |-> p.treePos, flow |-> FALSE, field |-> "treePos"]

inSwirl_FromScatterPos(p, pos, hand, state) ==
    /\ hand # Null
    /\ state = "SCATTER"
    /\ distanceToSq(p.scatterPos, onParticleGrid(hand))
           < (SwirlReach * Unit) * (SwirlReach * Unit)
\* if (handPosition && appState === SCATTER) { dist = p.initialPos.distanceTo(
\* handPosition); if (dist < 4) ... }
inSwirl(p, pos, hand, state) ==
    /\ hand # Null
    /\ state = "SCATTER"
    /\ distanceToSq(pos, onParticleGrid(hand)) < (SwirlReach * Unit) * (SwirlReach * Unit)

\* new THREE.Vector3(Math.cos(time + p.id) * 0.5, Math.sin(time + p.id) * 0.5, 0)
swirlOffset(phaseQ) ==
    [x |-> cosQ(phaseQ) * (Unit \div 2), y |-> sinQ(phaseQ) * (Unit \div 2), z |-> 0]

\* a.add(b)
add(a, b) == [x |-> a.x + b.x, y |-> a.y + b.y, z |-> a.z + b.z]

\* A vector or colour method writes the object it is called on.  The result of
\* a chain of calls is given with the field of p whose object the chain has
\* written ("new" when it wrote an object of its own).
swirlTarget_InPlace(base, offset) ==
    [pos |-> add(base.pos, offset), wrote |-> base.field]
\* target = target.clone().add(offset)
swirlTarget(base, offset) ==
    [pos |-> add(base.pos, offset), wrote |-> "new"]

\* color.multiplyScalar(0.4)
multiplyScalar(color, tenths) == [color EXCEPT !.pct = (@ * tenths) \div 10]

blinks_AlsoRibbon(p, i) ==
    ~p.isTrunk /\ i % 15 = 0
\* if (!p.isRibbon && !p.isTrunk && i % 15 === 0)
blinks(p, i) ==
    ~p.isRibbon /\ ~p.isTrunk /\ i % 15 = 0

\* const blink = Math.sin(time * 3 + p.phase) > 0, the clock sampled where
\* time * 3 is a whole number of quarter turns
blinkOn(p, clockQ) == sinQ(clockQ + p.phase) > 0

\* the colour handed to mesh.setColorAt(i, ...): blink ? p.color :
\* p.color.clone().multiplyScalar(0.4), or p.color
emittedColor(p, i, clockQ) ==
    IF blinks(p, i) /\ ~blinkOn(p, clockQ)
    THEN [color |-> multiplyScalar(p.color, 4), wrote |-> "new"]
    ELSE [color |-> p.color, wrote |-> "new"]

\* p after a frame whose method calls wrote the objects of the fields named
written(p, target, emitted) ==
    LET q == IF target.wrote \in {"scatterPos", "heartPos", "treePos"}
             THEN [p EXCEPT ![target.wrote] = target.pos] ELSE p
    IN  IF emitted.wrote = "color" THEN [q EXCEPT !.color = emitted.color] ELSE q

\* the move of lerp is a whole number of grid steps
OnGrid(pos, target) ==
    /\ ((target.x - pos.x) * BlendPct) % 100 = 0
    /\ ((target.y - pos.y) * BlendPct) % 100 = 0
    /\ ((target.z - pos.z) * BlendPct) % 100 = 0

lerp_Overshoots(pos, target) ==
    [x |-> pos.x + ((target.x - pos.x) * (200 + BlendPct)) \div 100,
     y |-> pos.y + ((target.y - pos.y) * (200 + BlendPct)) \div 100,
     z |-> pos.z + ((target.z - pos.z) * (200 + BlendPct)) \div 100]
\* p.initialPos.lerp(target, 0.08)
lerp(pos, target) ==
    [x |-> pos.x + ((target.x - pos.x) * BlendPct) \div 100,
     y |-> pos.y + ((target.y - pos.y) * BlendPct) \div 100,
     z |-> pos.z + ((target.z - pos.z) * BlendPct) \div 100]

\* useFrame(({ clock }, delta) => { particles.forEach((p, i) => { ... }) }); the
\* clock is at quarter turn clockQ of the angle the frame computes
MagicParticlesFrame ==
    /\ \E clockQ \in 0 .. 3 :
        IF particles = <<>>
        THEN /\ initialPos' = initialPos
             /\ followed' = followed
             /\ lastEvent' = [op |-> "particlesFrame", drawn |-> 0]
        ELSE LET p == followed.p
                 base == baseTarget(p, appState, clockQ)
                 swirl == inSwirl(p, initialPos, handPos, appState)
                 swirled == IF swirl THEN swirlTarget(base, swirlOffset(clockQ))
                            ELSE [pos |-> base.pos, wrote |-> "new"]
                 target == swirled.pos
                 emitted == emittedColor(p, followed.i, clockQ)
             IN  /\ OnGrid(initialPos, target)
                 /\ initialPos' = lerp(initialPos, target)
                 /\ followed' = [followed EXCEPT !.p = written(p, swirled, emitted)]
                 /\ lastEvent' = [op |-> "particlesFrame", drawn |-> Len(particles),
                                  \* mesh.setMatrixAt(i, DUMMY.matrix)
                                  slot |-> followed.i, id |-> p.id,
                                  base |-> base.pos, flow |-> base.flow,
                                  swirl |-> swirl, target |-> target,
                                  from |-> initialPos,
                                  \* mesh.setColorAt(i, ...)
                                  color |-> emitted.color, clockQ |-> clockQ]
    /\ UNCHANGED <<classifyVars, appVars, photoVars, particles, created, pinchHeld,
                   halted>>

NextParticles == GenerateParticles \/ RenderProps \/ MagicParticlesFrame

SpecParticles == Init /\ [][NextParticles]_vars

(***************************************************************************)
(* The classifier harness: an input is drawn, then classified as it is and *)
(* scaled about its wrist.                                                 *)
(***************************************************************************)
ClassifyInit ==
    /\ AppInit
    /\ \/ input \in {EmptyResult, AbsentResult}
       \/ \E w \in Wrists :
            \E thumbTip \in XRay(w), indexTip \in XRay(w) \cup YRay(w),
               middleMCP \in YRay(w), middleTip \in YRay(w),
               ringTip \in XRay(w), pinkyTip \in YRay(w) :
                input = OneHand(MkHand(w, thumbTip, indexTip, middleMCP,
                                       middleTip, ringTip, pinkyTip))
    /\ factor = 1
    /\ cres = Pending
    /\ cresScaled = Pending
    /\ cresAgain = Pending
    /\ variant = Pending
    /\ cresVariant = Pending

Classify ==
    /\ cres = Pending
    /\ \E k \in 1 .. MaxScale :
        /\ factor' = k
        /\ cres' = classifyGesture(input)
        /\ cresScaled' = classifyGesture(ScaleResult(input, k))
    /\ UNCHANGED <<input, cresAgain, variant, cresVariant, appVars, photoVars, particleVars, pinchHeld, halted, lastEvent>>

\* classifyGesture is called on the same input once more, after the other call
ClassifyAgain ==
    /\ cres # Pending
    /\ cresAgain = Pending
    /\ cresAgain' = classifyGesture(input)
    /\ UNCHANGED <<input, factor, cres, cresScaled, variant, cresVariant, appVars,
                   photoVars, particleVars, pinchHeld, halted, lastEvent>>

\* the joints whose position classifyGesture uses: wrist, thumbTip, indexTip,
\* middleMCP, middleTip, ringTip, pinkyTip
ReadJoints == {0, 4, 8, 9, 12, 16, 20}

\* a hand with every joint at another depth
Deepened(h) == [j \in Joints |-> [h[j] EXCEPT !.z = 3 * j + 1]]
\* a hand with the joints classifyGesture does not use moved off the wrist
Spread(h) ==
    [j \in Joints |->
        IF j \in ReadJoints THEN h[j]
        ELSE [h[j] EXCEPT !.x = h[j].x + j, !.y = h[j].y - 2 * j]]

\* Results that show the first hand of the result with the same x and y at the
\* joints of ReadJoints: with other depths, with the other joints moved, and
\* with both and a second, pinching hand after it.
Variants(result) ==
    LET h == result.landmarks[1]
    IN  {[result EXCEPT !.landmarks = <<Deepened(h)>>],
         [result EXCEPT !.landmarks = <<Spread(h)>>],
         [result EXCEPT !.landmarks = <<Deepened(Spread(h)), PinchHand(60, 120)>>]}

\* classifyGesture is called on a variant of the input, after the other calls
ClassifyVariant ==
    /\ cresAgain # Pending
    /\ cresVariant = Pending
    /\ Len(input.landmarks) > 0
    /\ \E v \in Variants(input) :
        /\ variant' = v
        /\ cresVariant' = classifyGesture(v)
    /\ UNCHANGED <<input, factor, cres, cresScaled, cresAgain, appVars, photoVars,
                   particleVars, pinchHeld, halted, lastEvent>>

ClassifyNext == Classify \/ ClassifyAgain \/ ClassifyVariant

SpecClassify == ClassifyInit /\ [][ClassifyNext]_vars

(***************************************************************************)
(* Properties of classifyGesture, under SpecClassify.  They are stated on  *)
(* the landmarks themselves, with the squares of the factors as fractions: *)
(* 1.35^2 = 729 / 400 and 0.65^2 = 169 / 400.                              *)
(***************************************************************************)
Classified == cres # Pending
HasHand == input.hasLandmarks /\ Len(input.landmarks) > 0
Hand == input.landmarks[1]
PlanarSq(p, q) == (p.x - q.x) * (p.x - q.x) + (p.y - q.y) * (p.y - q.y)

\* the square of the palm size of h clamped below at 0.01, times 100^2
RefPalmSq(h) ==
    LET palm == PlanarSq(h[0], h[9]) * 10000
    IN  IF palm < GridRes * GridRes THEN GridRes * GridRes ELSE palm
RefUnclamped(h) == PlanarSq(h[0], h[9]) * 10000 >= GridRes * GridRes
RefCurled(h, j) == 400 * PlanarSq(h[j], h[0]) * 10000 < 729 * RefPalmSq(h)
RefCurledCount(h) == Cardinality({j \in {8, 12, 16, 20} : RefCurled(h, j)})
RefPinch(h) == 400 * PlanarSq(h[4], h[8]) * 10000 < 169 * RefPalmSq(h)
RefType(h) ==
    IF RefCurledCount(h) = 4 THEN "CLOSED_FIST"
    ELSE IF RefPinch(h) THEN "PINCH"
    ELSE IF RefCurledCount(h) <= 1 THEN "OPEN_PALM"
    ELSE "NONE"

\* C1: whenever the index, middle, ring and pinky tips are all curled, the
\* result is CLOSED_FIST, whatever the thumb-index distance (never PINCH).
C1_FistBeforePinch ==
    (Classified /\ HasHand /\ RefCurledCount(Hand) = 4) => cres.type = "CLOSED_FIST"

\* C1 witness: all four curled and the pinch condition holds, classified a fist
C1_Witness ==
    /\ Classified /\ HasHand
    /\ RefCurledCount(Hand) = 4 /\ RefPinch(Hand)
    /\ cres.type = "CLOSED_FIST"

\* C2: a result without hands (landmarks absent or empty) classifies to NONE with
\* a null anchor and pinch metric 1.
C2_NoHandsIsNoneNullOne ==
    (Classified /\ ~HasHand) =>
        cres = [type |-> "NONE", handCenter |-> Null, pinchDistance |-> One]

\* C3: with a hand present the type is that of the decision table: 4 curled
\* CLOSED_FIST, else pinch PINCH, else at most 1 curled OPEN_PALM, else NONE.
C3_DecisionTable ==
    (Classified /\ HasHand) => cres.type = RefType(Hand)

\* C3 witness: a pinch with two or three fingers curled
C3_Witness ==
    /\ Classified /\ HasHand
    /\ RefCurledCount(Hand) \in {2, 3} /\ RefPinch(Hand)
    /\ cres.type = "PINCH"

\* the anchor and pinch metric that go with each type
AnchorAndMetricOf(h, type) ==
    CASE type = "CLOSED_FIST" ->
            [handCenter |-> [x |-> h[0].x, y |-> h[0].y], pinchDistance |-> One]
      [] type = "PINCH" ->
            [handCenter |-> [x |-> h[8].x, y |-> h[8].y],
             pinchDistance |-> PlanarSq(h[4], h[8])]
      [] type = "OPEN_PALM" ->
            [handCenter |-> [x |-> h[9].x, y |-> h[9].y], pinchDistance |-> One]
      [] OTHER -> [handCenter |-> Null, pinchDistance |-> One]

\* C4: the anchor and the pinch metric are determined by the type (wrist and 1,
\* index tip and the pinch distance, middle MCP and 1, null and 1), so that the
\* anchor is null exactly when the type is NONE.
C4_AnchorAndMetricByType ==
    Classified =>
        /\ (cres.handCenter = Null) <=> (cres.type = "NONE")
        /\ cres.type = "NONE" => cres.pinchDistance = One
        /\ HasHand =>
            /\ cres.handCenter = AnchorAndMetricOf(Hand, cres.type).handCenter
            /\ cres.pinchDistance = AnchorAndMetricOf(Hand, cres.type).pinchDistance
            /\ cres.type = "PINCH" => RefPinch(Hand)

\* the part of C4 the code keeps: the table, for every result with a hand
C4_HandPresentTable ==
    (Classified /\ HasHand) =>
        /\ (cres.handCenter = Null) <=> (cres.type = "NONE")
        /\ cres.handCenter = AnchorAndMetricOf(Hand, cres.type).handCenter
        /\ cres.pinchDistance = AnchorAndMetricOf(Hand, cres.type).pinchDistance
        /\ cres.type = "PINCH" => RefPinch(Hand)

\* C5 as claimed: scaling the landmarks about the wrist by any positive factor
\* leaves the type unchanged.
C5_ScaleInvariant ==
    Classified => cres.type = cresScaled.type

\* C5 amended: scaling leaves the type unchanged provided the palm size is at
\* least 0.01 both before and after the scaling (the clamp acts on neither).
C5_ScaleInvariantUnclamped ==
    (/\ Classified /\ HasHand
     /\ RefUnclamped(Hand) /\ RefUnclamped(ScaleHand(Hand, factor)))
        => cres.type = cresScaled.type

\* C5 witness: an unclamped hand, scaled by 2 or more, classified a pinch twice
C5_Witness ==
    /\ Classified /\ HasHand /\ factor >= 2
    /\ RefUnclamped(Hand) /\ RefUnclamped(ScaleHand(Hand, factor))
    /\ cres.type = "PINCH" /\ cresScaled.type = "PINCH"

(***************************************************************************)
(* Properties of the grab controller and of stopCamera, under Spec.        *)
(***************************************************************************)
FrameRan == lastEvent.op = "frame"
Grabbed == {i \in 1 .. Len(photos) : photos[i].id = activePhotoId}

\* C6 as claimed: a photo that is the grab target stays the grab target in every
\* later frame in which the pinch flag has stayed set, whatever the positions
\* of the hand and of the other photos.
C6_GrabSticky ==
    (FrameRan /\ lastEvent.held /\ isPinching /\ lastEvent.prevActive # Null)
        => activePhotoId = lastEvent.prevActive

\* C6 amended: in such a frame the grab target is never cleared, and it stays
\* the same photo unless the frame acquires one (the photo closest to the hand
\* within 1.5), which then is the target; so it stays whenever the hand is
\* beyond 1.5 of every photo.
C6_GrabStickyUnlessReacquired ==
    (FrameRan /\ lastEvent.held /\ isPinching /\ lastEvent.prevActive # Null)
        => /\ activePhotoId # Null
           /\ lastEvent.closest = Null => activePhotoId = lastEvent.prevActive
           /\ lastEvent.closest # Null => activePhotoId = lastEvent.closest

\* C6 witness: the hand is there, no photo is within reach, the target is kept
C6_Witness ==
    /\ FrameRan /\ lastEvent.held /\ isPinching /\ lastEvent.prevActive # Null
    /\ handPos # Null /\ appState = "SCATTER" /\ lastEvent.closest = Null
    /\ activePhotoId = lastEvent.prevActive

\* C7: once the gesture is no longer PINCH (a detection, or stopCamera), the next
\* frame tick leaves no grab target.
C7_ReleasedWhenPinchEnds ==
    (FrameRan /\ gesture # "PINCH") => activePhotoId = Null

\* C8: at most one photo's id equals the active grab target.
C8_AtMostOneGrabbed == Cardinality(Grabbed) <= 1

\* C8 witness: after a frame, with two photos or more uploaded, exactly one is
\* grabbed
C8_Witness == FrameRan /\ Len(photos) >= 2 /\ Cardinality(Grabbed) = 1

\* the children within 1.5 of the hand, and those of them nearest to it
RefReach == 9 * GridRes * GridRes
RefDistSq(i) == distanceToSq(handPos, worldPos[i])
RefCandidates == {i \in 1 .. mounted : RefDistSq(i) < RefReach}
RefNearest == {i \in RefCandidates : \A j \in RefCandidates : RefDistSq(i) <= RefDistSq(j)}
RefMayGrab == handPos # Null /\ isPinching /\ appState = "SCATTER"

\* C9: a frame sets the grab target to a photo only with a hand, the pinch flag
\* and SCATTER, and then to the photo closest to the hand among those closer
\* than 1.5; otherwise it acquires none; after a frame a grab target implies the
\* pinch flag.
C9_Acquisition ==
    [][lastEvent'.op = "frame" =>
        /\ (activePhotoId' # Null /\ activePhotoId' # activePhotoId) =>
                RefMayGrab /\ \E i \in RefNearest : photos[i].id = activePhotoId'
        /\ (RefMayGrab /\ RefCandidates # {}) =>
                \E i \in RefNearest : photos[i].id = activePhotoId'
        /\ (~RefMayGrab \/ RefCandidates = {}) =>
                activePhotoId' \in {activePhotoId, Null}
        /\ activePhotoId' # Null => isPinching'
      ]_vars

\* C9 witness: with two photos rendered, a frame acquired the second one
C9_Witness ==
    /\ FrameRan /\ mounted >= 2 /\ lastEvent.prevActive = Null
    /\ activePhotoId = photos[2].id /\ isPinching

\* C10: right after stopCamera the gesture is NONE, there is no hand position and
\* the camera is off.
C10_StopCameraResets ==
    lastEvent.op = "stopCamera" =>
        gesture = "NONE" /\ handPos = Null /\ ~cameraActive

\* C10 witness: stopCamera ran while a pinch was shown
C10_Witness ==
    /\ lastEvent.op = "stopCamera" /\ lastEvent.prevGesture = "PINCH"
    /\ gesture = "NONE" /\ handPos = Null /\ ~cameraActive
\* C11: after stopCamera, and until startCamera is invoked again, a run of
\* predictWebcam leaves through its guard: it updates nothing and reschedules
\* nothing.
C11_StopHaltsDetection ==
    (halted /\ lastEvent.op = "predictWebcam") => lastEvent.saw = "exit"

\* C12: the application state changes by a detection (OPEN_PALM to SCATTER,
\* CLOSED_FIST to TREE, PINCH and NONE not at all) and by an upload (to SCATTER),
\* and by nothing else, stopCamera included.
C12_AppStatePolicy ==
    [][/\ (lastEvent'.op = "predictWebcam" /\ lastEvent'.saw \in {"hand", "noHand"}) =>
            appState' = CASE gesture' = "OPEN_PALM" -> "SCATTER"
                          [] gesture' = "CLOSED_FIST" -> "TREE"
                          [] OTHER -> appState
       /\ (lastEvent'.op = "predictWebcam" /\ lastEvent'.saw \in {"exit", "noResult"}) =>
            appState' = appState
       /\ lastEvent'.op = "handleFileUpload" => appState' = "SCATTER"
       /\ lastEvent'.op \notin {"predictWebcam", "handleFileUpload"} =>
            appState' = appState
      ]_vars

\* C12 witness: with no photo uploaded, a detection of a pinch left the state
\* SCATTER that an open palm had set
C12_Witness ==
    /\ lastEvent.op = "predictWebcam" /\ lastEvent.saw = "hand"
    /\ gesture = "PINCH" /\ appState = "SCATTER" /\ photos = <<>>

C20_AbsentHandIsNoHand ==
    lastEvent.op = "predictWebcam" =>
        /\ lastEvent.saw = "noHand" =>
            /\ gesture = "NONE" /\ handPos = Null /\ ~isPinching
            /\ appState = lastEvent.prevAppState
        /\ lastEvent.saw = "noResult" =>
            gesture = "NONE" /\ handPos = Null /\ ~isPinching

(***************************************************************************)
(* MagicParticles, under SpecParticles.                                    *)
(***************************************************************************)
ParticlesDrawn == lastEvent.op = "particlesFrame" /\ lastEvent.drawn > 0
\* the swirl offset has length 0.5, so the target differs from the base target
\* exactly when the offset was added
SwirlApplied == lastEvent.target # lastEvent.base
RefHandWithinReach(pos) ==
    /\ handPos # Null
    /\ distanceToSq(pos, onParticleGrid(handPos)) < 16 * Unit * Unit

\* C13, as stated: a frame adds the swirl offset to a particle's target exactly
\* when a hand anchor exists, the state is SCATTER and the particle's original
\* scatter position (fixed at creation) is strictly within 4 units of the hand,
\* whatever frames came before.
C13_SwirlByScatterPos ==
    ParticlesDrawn =>
        (SwirlApplied <=> (appState = "SCATTER" /\ RefHandWithinReach(followed.p.scatterPos)))

\* C13, amended: a frame adds the swirl offset to a particle's target exactly
\* when a hand anchor exists, the state is SCATTER and the particle's current
\* position, as the frame finds it, is strictly within 4 units of the hand; with
\* no hand or in any other state no particle gets the offset.
C13_SwirlByCurrentPos ==
    ParticlesDrawn =>
        (SwirlApplied <=> (appState = "SCATTER" /\ RefHandWithinReach(lastEvent.from)))

\* a frame swirls a particle that earlier frames brought within reach of the
\* hand, while its scatter position is not within reach
C13_Witness ==
    /\ ParticlesDrawn
    /\ SwirlApplied
    /\ ~RefHandWithinReach(followed.p.scatterPos)

\* the offset of position a from position t, scaled by k
Offset(a, t, k) == [x |-> k * (a.x - t.x), y |-> k * (a.y - t.y), z |-> k * (a.z - t.z)]
ConstantTargetFrame == ParticlesDrawn /\ handPos = Null /\ ~followed.p.isRibbon

\* C14: with a constant target (no hand, non-ribbon particle, the state's stored
\* position) a smoothing step strictly decreases a nonzero distance to the
\* target, and leaves the particle on the segment from its old position to the
\* target, at 92 / 100 of the old offset: it never passes the target, and the
\* distance falls geometrically, towards zero, over repeated frames.
C14_StepContracts ==
    ConstantTargetFrame =>
        /\ lastEvent.target \in {followed.p.scatterPos, followed.p.heartPos, followed.p.treePos}
        /\ Offset(initialPos, lastEvent.target, 100) = Offset(lastEvent.from, lastEvent.target, 92)
        /\ lastEvent.from # lastEvent.target =>
               /\ distanceToSq(initialPos, lastEvent.target)
                      < distanceToSq(lastEvent.from, lastEvent.target)
               /\ initialPos # lastEvent.target

\* the second of two steps towards the same target: the particle set out from
\* its scatter position and is now at 92 / 100 of 92 / 100 of that offset
C14_Witness ==
    /\ ConstantTargetFrame
    /\ lastEvent.from # lastEvent.target
    /\ lastEvent.from # followed.p.scatterPos
    /\ Offset(lastEvent.from, lastEvent.target, 100)
           = Offset(followed.p.scatterPos, lastEvent.target, 92)
    /\ distanceToSq(initialPos, lastEvent.target)
           < distanceToSq(lastEvent.from, lastEvent.target)

\* v is u turned about the vertical axis: same height, same distance from the axis
TurnedAboutAxis(v, u) == v.y = u.y /\ v.x * v.x + v.z * v.z = u.x * u.x + u.z * u.z

\* C15: the base target a frame selects for a particle is its scatter position
\* in SCATTER and its heart position in HEART; in TREE it is, for a ribbon
\* particle, its ribbon position turned about the vertical axis (the stored
\* height kept) and for any other particle its tree position; in PHOTO_VIEW it
\* is the tree position of every particle.
C15_BaseTarget ==
    ParticlesDrawn =>
        /\ appState = "SCATTER" => lastEvent.base = followed.p.scatterPos
        /\ appState = "HEART" => lastEvent.base = followed.p.heartPos
        /\ (appState = "TREE" /\ followed.p.isRibbon) =>
               /\ lastEvent.flow
               /\ TurnedAboutAxis(lastEvent.base, followed.p.ribbonPos)
        /\ (appState = "TREE" /\ ~followed.p.isRibbon) => lastEvent.base = followed.p.treePos
        /\ appState = "PHOTO_VIEW" => lastEvent.base = followed.p.treePos

\* a TREE frame sends a ribbon particle to a point of its circle other than the
\* stored ribbon position
C15_Witness ==
    /\ ParticlesDrawn
    /\ appState = "TREE"
    /\ followed.p.isRibbon
    /\ lastEvent.base # followed.p.treePos
    /\ lastEvent.base.y = followed.p.ribbonPos.y

RibbonTrunkDisjoint(ps) == \A k \in 1 .. Len(ps) : ~(ps[k].isRibbon /\ ps[k].isTrunk)
\* the batch the generation loop builds has the property (evaluated once)
GeneratedDisjoint == RibbonTrunkDisjoint(tempParticles)

\* C16: no particle of the generated batch has both isRibbon and isTrunk, in
\* any state, after any number of frames: the particles state is empty or the
\* batch as generated, in which no particle has both.
C16_RibbonTrunkDisjoint ==
    particles # <<>> => (particles = tempParticles /\ GeneratedDisjoint)

\* frames have run on a batch that holds ribbon, trunk and canopy particles,
\* and the followed particle has moved
C16_Witness ==
    /\ ParticlesDrawn
    /\ initialPos # followed.p.scatterPos
    /\ \E k \in 1 .. Len(particles) : particles[k].isRibbon /\ ~particles[k].isTrunk
    /\ \E k \in 1 .. Len(particles) : particles[k].isTrunk /\ ~particles[k].isRibbon
    /\ \E k \in 1 .. Len(particles) : ~particles[k].isTrunk /\ ~particles[k].isRibbon

RibbonPosIffRibbon(ps) == \A k \in 1 .. Len(ps) : ps[k].isRibbon <=> ps[k].ribbonPos # Null
\* the batch the generation loop builds has the property (evaluated once)
GeneratedRibbonPos == RibbonPosIffRibbon(tempParticles)

\* C17: every particle of the batch with isRibbon carries a ribbon position and
\* every particle without it carries none, and a frame computes the ribbon-flow
\* target only for a particle with isRibbon.
C17_RibbonPosIffRibbon ==
    /\ particles # <<>> =>
           /\ particles = tempParticles /\ GeneratedRibbonPos
           /\ followed.p.isRibbon <=> followed.p.ribbonPos # Null
    /\ ParticlesDrawn => (lastEvent.flow => followed.p.isRibbon)

\* a TREE frame takes the tree position for a particle without ribbon position,
\* in a batch whose first particle has one
C17_Witness ==
    /\ ParticlesDrawn
    /\ appState = "TREE"
    /\ ~followed.p.isRibbon
    /\ followed.p.ribbonPos = Null
    /\ ~lastEvent.flow
    /\ particles[1].isRibbon
    /\ particles[1].ribbonPos # Null

CountAndIds(ps) == Len(ps) = COUNT /\ \A k \in 1 .. Len(ps) : ps[k].id = k - 1
\* the batch the generation loop builds has the property (evaluated once)
GeneratedCountAndIds == CountAndIds(tempParticles)

\* C18: once generated, the batch has COUNT particles, the particle at index i
\* has id i, and it stays the batch as generated through every frame and every
\* change of the props; a frame goes through the whole batch and writes the
\* particle at index i, whose id is i, to render slot i.
C18_CountAndIdentity ==
    /\ particles # <<>> =>
           /\ particles = tempParticles /\ GeneratedCountAndIds
           /\ particles[followed.i + 1].id = followed.p.id
    /\ ParticlesDrawn =>
           /\ lastEvent.drawn = COUNT
           /\ lastEvent.slot = lastEvent.id
           /\ lastEvent.id = followed.p.id

\* a frame after a change of state and hand writes the last particle of the
\* batch to the last render slot
C18_Witness ==
    /\ ParticlesDrawn
    /\ Len(particles) = COUNT
    /\ lastEvent.slot = COUNT - 1
    /\ lastEvent.id = COUNT - 1
    /\ appState = "SCATTER"
    /\ handPos # Null

(***************************************************************************)
(* App: relations between the state variables, under Spec and SpecCamera.  *)
(***************************************************************************)
\* C23: in every reachable state handPos is null exactly when gesture is NONE.
C23_HandPosIffGesture == (handPos = Null) <=> (gesture = "NONE")

\* a detection tick saw a hand that is no gesture, after the state had been
\* scattered by an open palm: the gesture is NONE and the hand position null
C23_Witness ==
    /\ lastEvent.op = "predictWebcam"
    /\ lastEvent.saw = "hand"
    /\ lastEvent.prevAppState = "SCATTER"
    /\ gesture = "NONE"
    /\ handPos = Null

\* C24: in every reachable state isPinching is true only if gesture is PINCH.
C24_PinchingOnlyIfPinch == isPinching => gesture = "PINCH"

\* C25: in every reachable state appState is TREE or SCATTER.
C25_TreeOrScatter == appState \in {"TREE", "SCATTER"}

\* a fist gathers the tree again after photos were uploaded and scattered
C25_Witness ==
    /\ lastEvent.op = "predictWebcam"
    /\ lastEvent.prevAppState = "SCATTER"
    /\ gesture = "CLOSED_FIST"
    /\ appState = "TREE"
    /\ Len(photos) > 0

\* C26: at most one predictWebcam animation-frame callback is pending, and
\* requestRef names it.
C26_SingleChain == rafPending <= 1 /\ (rafPending = 1 => requestRef = "live")

(***************************************************************************)
(* C21: the frame loop never changes treePos, heartPos, scatterPos,        *)
(* ribbonPos, color, size or phase of a particle, on frames with the swirl *)
(* or the blink dimming included: the followed particle keeps every field  *)
(* the generation loop pushed, and the particles state stays the generated *)
(* batch; only initialPos moves.                                           *)
(***************************************************************************)
C21_StoredFieldsKept ==
    followed # Null => (followed.p = created /\ particles = tempParticles)

\* a frame that applied the swirl and emitted the dimmed colour has moved
\* initialPos
C21_Witness ==
    /\ ParticlesDrawn
    /\ lastEvent.swirl
    /\ lastEvent.color.pct = 40
    /\ initialPos # lastEvent.from
    /\ initialPos # created.scatterPos

(***************************************************************************)
(* C22: the colour a frame emits for a particle is the copy dimmed to 0.4  *)
(* exactly when the particle is neither ribbon nor trunk, its index is a   *)
(* multiple of 15 and sin(3 * time + phase) is not positive; every other   *)
(* particle is emitted with the colour it was assigned.                    *)
(***************************************************************************)
C22_EmittedColor ==
    ParticlesDrawn =>
        LET p == created
            dims == /\ ~p.isRibbon /\ ~p.isTrunk /\ lastEvent.slot % 15 = 0
                    /\ sinQ(lastEvent.clockQ + p.phase) <= 0
        IN  /\ dims => lastEvent.color = [hex |-> p.color.hex, pct |-> 40]
            /\ ~dims => lastEvent.color = p.color

\* a ribbon particle at a multiple of 15 drawn with its own colour while the
\* sine is not positive
C22_Witness ==
    /\ ParticlesDrawn
    /\ created.isRibbon
    /\ lastEvent.slot % 15 = 0
    /\ sinQ(lastEvent.clockQ + created.phase) <= 0
    /\ lastEvent.color = ribbonColor


(***************************************************************************)
(* C27: the result of classifyGesture depends only on the x and y of the   *)
(* joints 0, 4, 8, 9, 12, 16 and 20 of the first hand: a result that       *)
(* agrees with the input there is classified as the input is, whatever its *)
(* depths, its other joints and its further hands are.                     *)
(***************************************************************************)
SamePlanarReadJoints(a, b) ==
    /\ Len(a.landmarks) > 0
    /\ Len(b.landmarks) > 0
    /\ \A j \in ReadJoints :
        /\ a.landmarks[1][j].x = b.landmarks[1][j].x
        /\ a.landmarks[1][j].y = b.landmarks[1][j].y
C27_PlanarReadJointsOnly ==
    cresVariant # Pending =>
        (SamePlanarReadJoints(input, variant) /\ cresVariant = cres)

\* a pinch classified the same with other depths, other joints moved and a
\* second hand in the result
C27_Witness ==
    /\ cresVariant # Pending
    /\ cres.type = "PINCH"
    /\ cres.pinchDistance > 0
    /\ cresVariant = cres
    /\ Len(variant.landmarks) = 2
    /\ \E j \in ReadJoints : variant.landmarks[1][j].z # input.landmarks[1][j].z
    /\ \E j \in Joints \ ReadJoints :
            variant.landmarks[1][j].x # input.landmarks[1][j].x

====
